---- MODULE Spec2Model ----
(***************************************************************************)
(* Model of the race-condition guards of chapter 14 (PageWithRefComparison,*)
(* PageWithCleanup, PageWithAbort driven by DemoApp) and of the            *)
(* latest-callback hooks of chapters 10 and 11 (useEventCallback,          *)
(* useDebounce, useThrottle), with the debounce / throttle instances they  *)
(* wrap, the demos that use debounce without a hook, the unguarded Page    *)
(* and getLastVisibleItem of the navigation bar of chapter 12.             *)
(*                                                                         *)
(* The page components are run side by side on the same inputs: the        *)
(* same clicks of DemoApp, the same unmount, and the same timer expiry of  *)
(* the n-th simulateFetch.  JavaScript is single threaded: a macrotask (a  *)
(* click handler with the render and effects it causes, a timer callback)  *)
(* runs to completion and the promise reactions it queued run before the   *)
(* next macrotask, so every macrotask action is guarded by an empty        *)
(* microtask queue.                                                        *)
(***************************************************************************)
EXTENDS Integers, Sequences, FiniteSets, TLC

\* ------------------------------------------------------------------------
\* Bounds
\* ------------------------------------------------------------------------

\* number of tab clicks (setPage calls) explored
MaxClicks == 3

\* number of renders of the component that owns a latest-callback hook
MaxRenders == 3

\* number of calls of the stable trigger explored
MaxCalls == 2

\* number of calls made directly on one debounce / throttle instance
MaxTrig == 3

\* number of calls of the function returned by useDebounce / useThrottle
MaxHookTrig == 1

\* number of clock steps explored
MaxTicks == 3

\* number of children of the navigation container, the "more" button included
MaxChildren == 4

\* widest item of the navigation bar, in units of WidthUnit
MaxItemWidth == 2

\* widest navigation container, in units of WidthUnit
MaxContainerWidth == 6

\* widest rendered "more" button, in units of WidthUnit
MaxMoreWidth == 2

\* number of clicks on the Clear button of a demo
MaxClears == 1

\* number of keystrokes in the input of a demo
MaxKeystrokes == 2

\* number of clock steps explored while a demo runs
MaxDemoTicks == 2

\* ------------------------------------------------------------------------
\* Data of chapter 14
\* ------------------------------------------------------------------------

\* strings that the code takes apart are sequences of characters
Keys == {<<"1">>, <<"2">>, <<"3">>}

\* the three race guards
Strategies == {"ref", "cleanup", "abort"}

\* order in which the side-by-side components are served
StratOrder == <<"ref", "cleanup", "abort">>

\* the unguarded Page of RaceConditionApp, given the same clicks and the same
\* fetch delays, next to the three guarded components
Components == {"page"} \cup Strategies

CompOrder == <<"page">> \o StratOrder

IssuePrefix == <<"I", "S", "S", "U", "E", "-">>

issuesData ==
  [k \in Keys |->
     [id |-> IssuePrefix \o k,
      title |-> CASE k = <<"1">> -> "Login Bug"
                  [] k = <<"2">> -> "Dashboard Crash"
                  [] k = <<"3">> -> "Payment Failed",
      description |->
        CASE k = <<"1">> -> "Users cannot login with special characters"
          [] k = <<"2">> -> "Dashboard crashes on mobile devices"
          [] k = <<"3">> -> "Payment processing times out randomly"]]

\* useState(null): no issue record yet
NoData == [id |-> <<>>, title |-> "null", description |-> "null"]

\* String.prototype.split(sep): the pieces of s between occurrences of sep
RECURSIVE SplitFrom(_, _, _, _)
SplitFrom(s, sep, i, cur) ==
  IF i > Len(s) THEN <<cur>>
  ELSE IF s[i] = sep THEN <<cur>> \o SplitFrom(s, sep, i + 1, <<>>)
  ELSE SplitFrom(s, sep, i + 1, Append(cur, s[i]))

Split(s, sep) == SplitFrom(s, sep, 1, <<>>)

\* ------------------------------------------------------------------------
\* State
\* ------------------------------------------------------------------------
VARIABLES
  phase,         \* "init" (DemoApp not mounted yet), "mounted", "unmounted"
  page,          \* DemoApp: useState("1"), handed to the page as prop id
  data,          \* per strategy: useState(null)
  loading,       \* per strategy: useState(true)
  currentIdRef,  \* PageWithRefComparison: useRef(id)
  req,           \* per strategy: the simulateFetch calls, in order of issue
  microQ,        \* promise reactions queued and not yet run
  reported,      \* console.error("Fetch error:", error) calls of PageWithAbort
  commits,       \* history, per strategy: the setData/setLoading(false) calls
  fireOrder,     \* history: order in which the fetch timers expired
  clicks,        \* history: number of setPage calls
  changes        \* history: number of setPage calls that changed the value

coordVars == <<phase, page, data, loading, currentIdRef, req, microQ,
               reported, commits, fireOrder, clicks, changes>>

\* The component that owns a latest-callback hook (chapters 10 and 11)
VARIABLES
  hook,          \* which hook the component uses
  cellPhase,     \* "init", "rendered" (effects pending), "idle", "unmounted";
                 \* in the naive demos "renderPending": a render was asked for
  renders,       \* number of renders so far; render k creates callback k
  renderCb,      \* the callback argument of the latest render
  callbackRef,   \* ref.current / callbackRef.current
  delay,         \* the delay argument of the latest render
  memoFn,        \* the function held by useCallback / useMemo
  memoDeps,      \* the dependency list it was created with
  memoCb,        \* the callback argument of the render that created it
  nextFnId,      \* identity of the next function object to be created
  returned,      \* history: what each render returned
  registered,    \* history: the callbacks written to the ref, in order
  calls,         \* history: the invocations made through the trigger
  value          \* NaiveDebounceDemo / NaiveRefDemo: useState("")

cellVars == <<hook, cellPhase, renders, renderCb, callbackRef, delay, memoFn,
              memoDeps, memoCb, nextFnId, returned, registered, calls, value>>

\* The timer facility and the debounce / throttle instances (chapter 11)
VARIABLES
  now,           \* Date.now()
  sched,         \* per instance: kind, wait, and its closure variables
                 \* lastTime and timeoutId
  timers,        \* every setTimeout made so far; the timer id is the index
  effectFn,      \* the instance whose cancel the cleanup effect will call
  invoked,       \* history: the calls of the callback handed to an instance
  trig,          \* history: the calls of the debounced / throttled function
  cancelled      \* history: the timers that were pending when cancel() of
                 \* their instance was called

schedVars == <<now, sched, timers, effectFn, invoked, trig, cancelled>>

\* The responsive navigation bar (chapter 12)
VARIABLES
  container,        \* containerRef.current: its width and those of the
                    \* children rendered in it
  navWidths,        \* the rendered widths of the links of navItems
  moreWidth,        \* the rendered width of the "More" button
  lastVisibleIndex, \* useState(-1)
  measured          \* history: the last call of getLastVisibleItem, the
                    \* container it was given and what it returned

navVars == <<container, navWidths, moreWidth, lastVisibleIndex, measured>>

\* The request list of the demos that use debounce without the hook
VARIABLES
  requests,         \* useState([]): the list the latest render shows
  queued,           \* the values of the setRequests((prev) => [...prev, v])
                    \* calls that no render has applied yet
  clears,           \* history: number of clicks on Clear
  unifiedSyncLane   \* the React release renders a waiting update together
                    \* with the update of a discrete event (React 19) or
                    \* leaves it to a render of its own (React 18)

demoVars == <<requests, queued, clears, unifiedSyncLane>>

vars == <<coordVars, cellVars, schedVars, navVars, demoVars>>

\* ------------------------------------------------------------------------
\* simulateFetch(id, signal) and the AbortController
\* ------------------------------------------------------------------------

\* one call of simulateFetch: its timer, its promise, and the per-effect
\* guard of the caller (isActive of PageWithCleanup, controller.signal of
\* PageWithAbort; the field a strategy does not have keeps its initial value)
simulateFetch(id) ==
  [key |-> id, timer |-> "armed", promise |-> "pending", err |-> "none",
   isActive |-> TRUE, aborted |-> FALSE]

\* the setTimeout callback: resolve(issuesData[id])
TimerExpires(r) ==
  [r EXCEPT !.timer = "fired",
            !.promise = IF @ = "pending" THEN "fulfilled" ELSE @]

\* an abort listener whose reject replaces an outcome already reached
AbortOverwrites(r) ==
  IF r.aborted THEN r
  ELSE [r EXCEPT !.aborted = TRUE,
                 !.timer = IF @ = "armed" THEN "cleared" ELSE @,
                 !.promise = "rejected",
                 !.err = "AbortError"]

\* controller.abort(): the "abort" listener runs once; it clears the timer
\* and rejects, which settles the promise only if it is still pending
Abort(r) ==
  IF r.aborted THEN r
  ELSE [r EXCEPT !.aborted = TRUE,
                 !.timer = IF @ = "armed" THEN "cleared" ELSE @,
                 !.promise = IF @ = "pending" THEN "rejected" ELSE @,
                 !.err = IF r.promise = "pending" THEN "AbortError" ELSE @]

\* ------------------------------------------------------------------------
\* The effect of each page component
\* ------------------------------------------------------------------------

\* an effect without a usable dependency list: it runs after every render
DepsAlwaysChanged(prev, next) == TRUE

\* React runs an effect again when a dependency differs from the last run
DepsChanged(prev, next) == prev # next

\* the unguarded Page of the first half of the chapter: no comparison at all
RefMatchesAlways(cur, result) == TRUE

\* the comparison without the split: "1" against "ISSUE-1"
RefMatchesNoSplit(cur, result) == cur = result.id

\* PageWithRefComparison: currentIdRef.current === result.id.split("-")[1]
RefMatches(cur, result) ==
  LET parts == Split(result.id, "-")
  IN  IF Len(parts) >= 2 THEN cur = parts[2] ELSE FALSE

\* effects that return no cleanup function
CleanupNothing(s, r) == r

\* the cleanup function an effect returns
Cleanup(s, r) ==
  CASE s = "page" -> r
    [] s = "ref" -> r
    [] s = "cleanup" -> [r EXCEPT !.isActive = FALSE]
    [] s = "abort" -> Abort(r)

\* the reaction the cleanup queues: the catch of an aborted pending fetch
CleanupTasks(n) ==
  IF ~req["abort"][n].aborted /\ req["abort"][n].promise = "pending"
  THEN <<[s |-> "abort", n |-> n, kind |-> "catch"]>>
  ELSE <<>>

\* a Page that commits only the result of the key it is showing
PageCommitsCurrent(r, cur) == r.key = cur

\* the then-callback of the unguarded Page: setData(result) with no condition
PageCommits(r, cur) == TRUE

\* the condition under which the then-callback calls setData
ShouldCommit(s, r, cur) ==
  CASE s = "page" -> PageCommits(r, cur)
    [] s = "ref" -> RefMatches(cur, issuesData[r.key])
    [] s = "cleanup" -> r.isActive
    [] s = "abort" -> TRUE

\* a catch that logs every rejection
IsReportedAlways(name) == TRUE

\* .catch of PageWithAbort: error.name !== "AbortError"
IsReported(name) == name # "AbortError"

\* ------------------------------------------------------------------------
\* The latest-callback hooks
\* ------------------------------------------------------------------------

Hooks == {"useEventCallback", "useDebounce", "useThrottle"}

\* useEventCallback takes no delay
NoDelay == 0

\* the delay arguments a render may pass
Delays(h) == IF h = "useEventCallback" THEN {NoDelay} ELSE {500, 1000}

\* the argument lists handed to the trigger
ArgLists == {<<>>, <<"a">>, <<"a", "b">>}

\* no function yet
NoFn == 0

\* a dependency list that names the callback: a new function every render
HookDepsCallback(h, d, cb) == <<cb>>

\* the dependency list of the memoised function: useCallback(..., []) in
\* useEventCallback, useMemo(..., [delay]) in useDebounce and useThrottle
HookDeps(h, d, cb) == IF h = "useEventCallback" THEN <<>> ELSE <<d>>

\* a trigger that calls the callback it closed over when it was created
TriggerCallStale(slot, created, args) == [cb |-> created, args |-> args]

\* the stable function: (...args) => ref.current(...args)
TriggerCall(slot, created, args) == [cb |-> slot, args |-> args]

\* a hook that assigns ref.current = callback in the body of the render
RefWrittenInRender(held, cb, mounting) == cb

\* useRef(callback) in a render: the argument is the value of the ref only at
\* the first render, later renders leave the ref to the effect
RefAfterRender(held, cb, mounting) == IF mounting THEN cb ELSE held

\* the hook state before the first render
CellStart(h) ==
  /\ hook = h
  /\ cellPhase = "init"
  /\ renders = 0
  /\ renderCb = 0
  /\ callbackRef = 0
  /\ delay = NoDelay
  /\ memoFn = NoFn
  /\ memoDeps = <<>>
  /\ memoCb = 0
  /\ nextFnId = 1
  /\ returned = <<>>
  /\ registered = <<>>
  /\ calls = <<>>
  /\ value = <<>>

\* ------------------------------------------------------------------------
\* debounce(callback, wait) and throttle(callback, wait)
\* ------------------------------------------------------------------------

\* the delays the demos pass: useDebounce(..., 500), useThrottle(..., 1000)
DebounceDemoDelay == 500
ThrottleDemoDelay == 1000

Waits == {DebounceDemoDelay, ThrottleDemoDelay}

\* the clock advances in steps of the shorter delay
TickMs == DebounceDemoDelay

\* Date.now() when the model starts: far more than any wait after the epoch
StartTime == 2 * ThrottleDemoDelay

\* the payloads handed to a debounced / throttled function
Payloads == {<<"A">>, <<"B">>}

\* the payload handed to the function a hook returned: the hooks forward
\* the arguments untouched, what differs between their calls is the callback
HookPayloads == {<<"A">>}

\* let timeoutId = null
NoTimer == 0

\* let lastTime = 0
NeverFired == 0

\* a new instance: the closure variables of debounce / throttle
Scheduler(kind, wait, cb) ==
  [kind |-> kind, wait |-> wait, lastTime |-> NeverFired,
   timeoutId |-> NoTimer, createdCb |-> cb]

\* setTimeout(fn, ms) made by call number c of instance i
NewTimer(i, ms, args, c, slot) ==
  [inst |-> i, due |-> now + ms, args |-> args, status |-> "live",
   call |-> c, slotAtCall |-> slot]

\* clearTimeout(id): a timer that has fired or was cleared is left as it is
ClearTimeout(ts, id) ==
  IF id # NoTimer /\ ts[id].status = "live"
  THEN [ts EXCEPT ![id].status = "cleared"]
  ELSE ts

\* a debounced function that arms without clearing the previous timer
KeepPrevious(ts, id) == ts

\* debouncedFn: if (timeoutId) clearTimeout(timeoutId)
ClearPrevious(ts, id) == ClearTimeout(ts, id)

\* a debounce whose timer is set without the delay
DebounceNoWait(wait) == 0

\* debouncedFn: setTimeout(() => callback(...args), wait)
DebounceWait(wait) == wait

\* a cancel that leaves the timer running
CancelNothing(ts, id) == ts

\* debouncedFn.cancel / throttledFn.cancel: if (timeoutId) clearTimeout(...)
CancelTimer(ts, id) == ClearTimeout(ts, id)

\* throttledFn: now - lastTime >= wait
ThrottleLeads(elapsed, wait) == elapsed >= wait

\* a throttle that arms a timer on every suppressed call
MayArmAlways(id) == TRUE

\* throttledFn: else if (!timeoutId)
MayArm(id) == id = NoTimer

\* a throttle whose pending timer takes the arguments of the latest call
TrailingLatest(armedWith, args) == args

\* throttledFn with a timer pending: the call does nothing, the closure of
\* the timer keeps the arguments of the call that armed it
TrailingArgs(armedWith, args) == armedWith

\* a wrapper that calls the callback that was in the ref when it was armed
HookFuncAtCall(slot, atCall, args) == [cb |-> atCall, args |-> args]

\* func of useDebounce / useThrottle: callbackRef.current?.(...args), read
\* when the instance calls it
HookFunc(slot, atCall, args) == [cb |-> slot, args |-> args]

\* the timer facility and the instances before anything was created
SchedStart ==
  /\ now = StartTime
  /\ sched = <<>>
  /\ timers = <<>>
  /\ effectFn = NoFn
  /\ invoked = <<>>
  /\ trig = <<>>
  /\ cancelled = {}

\* one call of the callback handed to instance i, by timer t (NoTimer: by the
\* leading edge), in answer to call number c
Invocation(i, t, c, args, slotAtCall) ==
  [inst |-> i, timer |-> t, call |-> c, at |-> now,
   run |-> HookFunc(callbackRef, slotAtCall, args),
   nreg |-> Len(registered), ownerPhase |-> cellPhase,
   current |-> memoFn]

\* the record of one call of the debounced / throttled function
TrigRecord(i, args, elapsed, outcome) ==
  [inst |-> i, at |-> now, args |-> args, elapsed |-> elapsed,
   outcome |-> outcome, ninv |-> Len(invoked), ownerPhase |-> cellPhase,
   ncancel |-> Cardinality(cancelled)]

\* debouncedFn(...args) of instance i
DebouncedFn(i, args) ==
  LET c == Len(trig) + 1
  IN  /\ timers' = Append(ClearPrevious(timers, sched[i].timeoutId),
                          NewTimer(i, DebounceWait(sched[i].wait), args, c,
                                   callbackRef))
      /\ sched' = [sched EXCEPT ![i].timeoutId = Len(timers) + 1]
      /\ trig' = Append(trig, TrigRecord(i, args, now - sched[i].lastTime,
                                         "armed"))
      /\ UNCHANGED invoked

\* throttledFn(...args) of instance i
ThrottledFn(i, args) ==
  LET c == Len(trig) + 1
      elapsed == now - sched[i].lastTime
  IN  IF ThrottleLeads(elapsed, sched[i].wait)
      THEN /\ sched' = [sched EXCEPT ![i].lastTime = now]
           /\ invoked' = Append(invoked,
                                Invocation(i, NoTimer, c, args, callbackRef))
           /\ trig' = Append(trig, TrigRecord(i, args, elapsed, "invoked"))
           /\ UNCHANGED timers
      ELSE IF MayArm(sched[i].timeoutId)
      THEN /\ timers' = Append(timers,
                               NewTimer(i, sched[i].wait - elapsed, args, c,
                                        callbackRef))
           /\ sched' = [sched EXCEPT ![i].timeoutId = Len(timers) + 1]
           /\ trig' = Append(trig, TrigRecord(i, args, elapsed, "armed"))
           /\ UNCHANGED invoked
      ELSE /\ trig' = Append(trig, TrigRecord(i, args, elapsed,
                        IF timers[sched[i].timeoutId].status = "live"
                        THEN "pending" ELSE "dropped"))
           /\ timers' = [timers EXCEPT ![sched[i].timeoutId].args =
                                         TrailingArgs(@, args)]
           /\ UNCHANGED <<sched, invoked>>

\* the function debounce / throttle returned for instance i is called
SchedCall(i, args) ==
  IF sched[i].kind = "debounce" THEN DebouncedFn(i, args)
  ELSE ThrottledFn(i, args)

\* the timers that cancel() of instance i finds pending
PendingOf(i) ==
  IF i \in DOMAIN sched /\ sched[i].timeoutId # NoTimer
     /\ timers[sched[i].timeoutId].status = "live"
  THEN {sched[i].timeoutId} ELSE {}

\* cancel() of instance i; NoFn: there is no instance to cancel
CancelOf(i) ==
  IF i \in DOMAIN sched
  THEN /\ timers' = CancelTimer(timers, sched[i].timeoutId)
       /\ cancelled' = cancelled \cup PendingOf(i)
  ELSE UNCHANGED <<timers, cancelled>>

\* debounce for useDebounce, throttle for useThrottle
KindOf(h) == IF h = "useThrottle" THEN "throttle" ELSE "debounce"

\* ------------------------------------------------------------------------
\* getLastVisibleItem(container, moreButtonWidth) of the navigation bar
\* ------------------------------------------------------------------------

\* containerRef.current === null
NoContainer == [present |-> FALSE, width |-> 0, children |-> <<>>]

\* moreButtonWidth: number = 60, the value every caller leaves it at
DefaultMoreButtonWidth == 60

\* the widths explored are whole multiples of the default moreButtonWidth
WidthUnit == DefaultMoreButtonWidth

\* the widths of lo to n units
Widths(lo, n) == {WidthUnit * k : k \in lo..n}

\* children.slice(0, -1)
SliceButLast(xs) ==
  IF Len(xs) = 0 THEN <<>> ELSE SubSeq(xs, 1, Len(xs) - 1)

\* items.reduce((sum, item) => sum + width(item), 0)
RECURSIVE SumWidths(_)
SumWidths(xs) == IF xs = <<>> THEN 0 ELSE Head(xs) + SumWidths(Tail(xs))

\* the for loop, from index i (counted from 0) on
RECURSIVE VisibleLoop(_, _, _, _, _, _)
VisibleLoop(items, i, totalWidth, lastVisible, more, containerWidth) ==
  IF i >= Len(items) THEN lastVisible
  ELSE IF totalWidth + items[i + 1] + more <= containerWidth
       THEN VisibleLoop(items, i + 1, totalWidth + items[i + 1], i, more,
                        containerWidth)
       ELSE lastVisible

getLastVisibleItem(c, more) ==
  IF ~c.present THEN -1
  ELSE LET items == SliceButLast(c.children)
           lastVisible == VisibleLoop(items, 0, 0, -1, more, c.width)
       IN  IF lastVisible = Len(items) - 1
              /\ SumWidths(items) <= c.width
           THEN Len(items) - 1
           ELSE lastVisible

\* before calculateVisible has run
NoMeasurement == [done |-> FALSE, container |-> NoContainer, result |-> -1]

\* the children of the container after a render with state lastVisible:
\* every link and the button while it is -1, else navItems.slice(0,
\* lastVisible + 1) and the button only when a link is hidden
RenderedChildren(widths, more, lastVisible) ==
  IF lastVisible = -1 THEN Append(widths, more)
  ELSE SubSeq(widths, 1, lastVisible + 1)
         \o (IF lastVisible + 1 < Len(widths) THEN <<more>> ELSE <<>>)

\* a demo before any request was sent
DemoStart ==
  /\ requests = <<>>
  /\ queued = <<>>
  /\ clears = 0
  /\ unifiedSyncLane = FALSE

\* the navigation bar before it is mounted
NavStart ==
  /\ container = NoContainer
  /\ navWidths = <<>>
  /\ moreWidth = 0
  /\ lastVisibleIndex = -1
  /\ measured = NoMeasurement

\* ------------------------------------------------------------------------
\* Initial state and actions of the page components
\* ------------------------------------------------------------------------
CoordInit ==
  /\ phase = "init"
  /\ page = <<"1">>
  /\ data = [s \in Components |-> NoData]
  /\ loading = [s \in Components |-> TRUE]
  /\ currentIdRef = <<"1">>
  /\ req = [s \in Components |-> <<>>]
  /\ microQ = <<>>
  /\ reported = <<>>
  /\ commits = [s \in Components |-> <<>>]
  /\ fireOrder = <<>>
  /\ clicks = 0
  /\ changes = 0

Init ==
  CoordInit /\ CellStart("useEventCallback") /\ SchedStart /\ NavStart
    /\ DemoStart

\* a solution button of ChapterFourteenOptimised: DemoApp mounts, the page
\* renders with id = page and its effect runs for the first time
Mount ==
  /\ phase = "init"
  /\ phase' = "mounted"
  /\ currentIdRef' = page
  /\ loading' = [s \in Components |-> TRUE]
  /\ req' = [s \in Components |-> <<simulateFetch(page)>>]
  /\ UNCHANGED <<page, data, microQ, reported, commits, fireOrder, clicks,
                 changes>>
  /\ UNCHANGED cellVars
  /\ UNCHANGED schedVars
  /\ UNCHANGED navVars
  /\ UNCHANGED demoVars

\* a tab button of DemoApp: setPage(k), re-render, and, when the dependency
\* [id] changed, the cleanup of the previous effect run and the new run
SetPage(k) ==
  /\ phase = "mounted"
  /\ microQ = <<>>
  /\ clicks < MaxClicks
  /\ clicks' = clicks + 1
  /\ changes' = changes + (IF k # page THEN 1 ELSE 0)
  /\ page' = k
  /\ IF DepsChanged(<<page>>, <<k>>)
     THEN /\ currentIdRef' = k
          /\ loading' = [s \in Components |-> TRUE]
          /\ req' = [s \in Components |->
                       Append([req[s] EXCEPT ![Len(req[s])] = Cleanup(s, @)],
                              simulateFetch(k))]
          /\ microQ' = CleanupTasks(Len(req["abort"]))
     ELSE UNCHANGED <<currentIdRef, loading, req, microQ>>
  /\ UNCHANGED <<phase, data, reported, commits, fireOrder>>
  /\ UNCHANGED cellVars
  /\ UNCHANGED schedVars
  /\ UNCHANGED navVars
  /\ UNCHANGED demoVars

\* Reset or another solution button: DemoApp unmounts and the cleanup of the
\* last effect run is called
Unmount ==
  /\ phase = "mounted"
  /\ microQ = <<>>
  /\ phase' = "unmounted"
  /\ req' = [s \in Components |->
               [req[s] EXCEPT ![Len(req[s])] = Cleanup(s, @)]]
  /\ microQ' = CleanupTasks(Len(req["abort"]))
  /\ UNCHANGED <<page, data, loading, currentIdRef, reported, commits,
                 fireOrder, clicks, changes>>
  /\ UNCHANGED cellVars
  /\ UNCHANGED schedVars
  /\ UNCHANGED navVars
  /\ UNCHANGED demoVars

\* the delay of the n-th simulateFetch elapses: in every component whose
\* timer is still armed the promise resolves and its then-callback is queued
TimerFire(n) ==
  /\ microQ = <<>>
  /\ n \in 1..Len(req["ref"])
  /\ \E s \in Components : req[s][n].timer = "armed"
  /\ req' = [s \in Components |->
               IF req[s][n].timer = "armed"
               THEN [req[s] EXCEPT ![n] = TimerExpires(@)]
               ELSE req[s]]
  /\ microQ' = SelectSeq([i \in 1..Len(CompOrder) |->
                            [s |-> CompOrder[i], n |-> n, kind |-> "then"]],
                         LAMBDA t : req[t.s][n].timer = "armed")
  /\ fireOrder' = Append(fireOrder, n)
  /\ UNCHANGED <<phase, page, data, loading, currentIdRef, reported, commits,
                 clicks, changes>>
  /\ UNCHANGED cellVars
  /\ UNCHANGED schedVars
  /\ UNCHANGED navVars
  /\ UNCHANGED demoVars

\* .then((result) => { ... setData(result); setLoading(false); })
\* commits records the calls of the setters; React drops the update of a
\* component that is no longer mounted, so the state changes only while the
\* component is mounted
ThenCallback(t) ==
  LET r == req[t.s][t.n]
      result == issuesData[r.key]
  IN  /\ t.kind = "then"
      /\ IF ShouldCommit(t.s, r, currentIdRef)
         THEN /\ data' = IF phase = "mounted"
                         THEN [data EXCEPT ![t.s] = result] ELSE data
              /\ loading' = IF phase = "mounted"
                            THEN [loading EXCEPT ![t.s] = FALSE] ELSE loading
              /\ commits' = [commits EXCEPT ![t.s] =
                   Append(@, [key |-> r.key, seq |-> t.n, id |-> page,
                              cur |-> Len(req[t.s]),
                              mounted |-> phase = "mounted"])]
         ELSE UNCHANGED <<data, loading, commits>>
      /\ UNCHANGED reported

\* a catch that rolls the component back to "no data" on any rejection
CatchClearsData(t) ==
  /\ t.kind = "catch"
  /\ data' = [data EXCEPT ![t.s] = NoData]
  /\ UNCHANGED <<loading, commits, reported>>

\* .catch((error) => { if (error.name !== "AbortError") console.error(...) })
\* a component without a catch leaves the rejection unhandled
CatchCallback(t) ==
  LET r == req[t.s][t.n]
  IN  /\ t.kind = "catch"
      /\ IF t.s = "abort" /\ IsReported(r.err)
         THEN reported' = Append(reported, [n |-> t.n, name |-> r.err])
         ELSE UNCHANGED reported
      /\ UNCHANGED <<data, loading, commits>>

\* the next queued promise reaction runs
RunMicrotask ==
  /\ microQ # <<>>
  /\ microQ' = Tail(microQ)
  /\ \/ ThenCallback(Head(microQ))
     \/ CatchCallback(Head(microQ))
  /\ UNCHANGED <<phase, page, currentIdRef, req, fireOrder, clicks, changes>>
  /\ UNCHANGED cellVars
  /\ UNCHANGED schedVars
  /\ UNCHANGED navVars
  /\ UNCHANGED demoVars

Next ==
  \/ Mount
  \/ \E k \in Keys : SetPage(k)
  \/ Unmount
  \/ \E n \in 1..(MaxClicks + 1) : TimerFire(n)
  \/ RunMicrotask

Spec == Init /\ [][Next]_vars

\* the scheduling of the event loop: an expired timer runs its callback and
\* queued promise reactions run
LiveSpec ==
  /\ Spec
  /\ WF_vars(RunMicrotask)
  /\ \A n \in 1..(MaxClicks + 1) : WF_vars(TimerFire(n))

\* ------------------------------------------------------------------------
\* A fetch capability that can fail (spec section 6: "must resolve or reject
\* exactly once"); simulateFetch itself rejects only on abort
\* ------------------------------------------------------------------------

\* the n-th fetch rejects with an Error that is not an AbortError: in every
\* component whose promise is still pending the rejection reaction is queued
FetchReject(n) ==
  /\ microQ = <<>>
  /\ n \in 1..Len(req["ref"])
  /\ \E s \in Components : req[s][n].promise = "pending"
  /\ req' = [s \in Components |->
               IF req[s][n].promise = "pending"
               THEN [req[s] EXCEPT ![n].timer = "cleared",
                                   ![n].promise = "rejected",
                                   ![n].err = "Error"]
               ELSE req[s]]
  /\ microQ' = SelectSeq([i \in 1..Len(CompOrder) |->
                            [s |-> CompOrder[i], n |-> n, kind |-> "catch"]],
                         LAMBDA t : req[t.s][n].promise = "pending")
  /\ UNCHANGED <<phase, page, data, loading, currentIdRef, reported, commits,
                 fireOrder, clicks, changes>>
  /\ UNCHANGED cellVars
  /\ UNCHANGED schedVars
  /\ UNCHANGED navVars
  /\ UNCHANGED demoVars

NextFail ==
  \/ Next
  \/ \E n \in 1..(MaxClicks + 1) : FetchReject(n)

SpecFail == Init /\ [][NextFail]_vars

\* ------------------------------------------------------------------------
\* Actions of the component that owns a latest-callback hook
\* ------------------------------------------------------------------------
CellInit ==
  CoordInit /\ SchedStart /\ NavStart /\ DemoStart
    /\ \E h \in Hooks : CellStart(h)

\* one render of the owner with a fresh callback and delay d: useRef keeps
\* its value after the first render, useCallback / useMemo keep the function
\* unless the dependency list changed, the effects are left pending
Render(d) ==
  LET cb == renders + 1
      deps == HookDeps(hook, d, cb)
      fresh == cellPhase = "init" \/ DepsChanged(memoDeps, deps)
      fn == IF fresh THEN nextFnId ELSE memoFn
  IN  /\ cellPhase \in {"init", "idle"}
      /\ renders < MaxRenders
      /\ renders' = cb
      /\ renderCb' = cb
      /\ delay' = d
      /\ callbackRef' = RefAfterRender(callbackRef, cb, cellPhase = "init")
      /\ registered' = IF cellPhase = "init" THEN <<cb>> ELSE registered
      /\ memoFn' = fn
      /\ memoDeps' = IF fresh THEN deps ELSE memoDeps
      /\ memoCb' = IF fresh THEN cb ELSE memoCb
      /\ nextFnId' = nextFnId + 1
      /\ returned' = Append(returned, [fn |-> fn, delay |-> d])
      /\ cellPhase' = "rendered"
      /\ sched' = IF fresh /\ hook # "useEventCallback"
                  THEN sched @@ (fn :> Scheduler(KindOf(hook), d, cb))
                  ELSE sched
      /\ UNCHANGED <<hook, calls, value>>
      /\ UNCHANGED <<now, timers, effectFn, invoked, trig, cancelled>>
      /\ UNCHANGED coordVars
      /\ UNCHANGED navVars
      /\ UNCHANGED demoVars

\* the passive effects of the last render: ref.current = callback, and,
\* when useMemo returned a new instance, the cleanup of the effect with
\* dependency [debouncedCallback]: cancel() of the previous instance
FlushEffects ==
  /\ cellPhase = "rendered"
  /\ cellPhase' = "idle"
  /\ callbackRef' = renderCb
  /\ registered' = Append(registered, renderCb)
  /\ IF hook # "useEventCallback" /\ DepsChanged(<<effectFn>>, <<memoFn>>)
     THEN /\ CancelOf(effectFn)
          /\ effectFn' = memoFn
     ELSE UNCHANGED <<timers, cancelled, effectFn>>
  /\ UNCHANGED <<hook, renders, renderCb, delay, memoFn, memoDeps, memoCb,
                 nextFnId, returned, calls, value>>
  /\ UNCHANGED <<now, sched, invoked, trig>>
  /\ UNCHANGED coordVars
  /\ UNCHANGED navVars
  /\ UNCHANGED demoVars

\* a holder of the function returned by useEventCallback calls it with args
Trigger(args) ==
  /\ hook = "useEventCallback"
  /\ cellPhase # "init"
  /\ Len(calls) < MaxCalls
  /\ calls' = Append(calls,
                     [call |-> TriggerCall(callbackRef, memoCb, args),
                      given |-> args,
                      nreg |-> Len(registered),
                      ownerPhase |-> cellPhase,
                      supplied |-> renderCb])
  /\ UNCHANGED <<hook, cellPhase, renders, renderCb, callbackRef, delay,
                 memoFn, memoDeps, memoCb, nextFnId, returned, registered,
                 value>>
  /\ UNCHANGED schedVars
  /\ UNCHANGED coordVars
  /\ UNCHANGED navVars
  /\ UNCHANGED demoVars

\* the calls explored per hook: the first call of a throttled function always
\* takes the leading edge, so it takes one call more to arm its timer
HookTrigBound(h) == IF h = "useThrottle" THEN MaxHookTrig + 1 ELSE MaxHookTrig

\* a holder of the function returned by useDebounce / useThrottle calls it
HookTrigger(args) ==
  /\ hook # "useEventCallback"
  /\ cellPhase # "init"
  /\ Len(trig) < HookTrigBound(hook)
  /\ SchedCall(memoFn, args)
  /\ UNCHANGED <<now, effectFn, cancelled>>
  /\ UNCHANGED cellVars
  /\ UNCHANGED coordVars
  /\ UNCHANGED navVars
  /\ UNCHANGED demoVars

\* the owner unmounts: the cleanup of the last effect run calls cancel()
HookUnmount ==
  /\ cellPhase = "idle"
  /\ cellPhase' = "unmounted"
  /\ IF hook # "useEventCallback"
     THEN CancelOf(effectFn)
     ELSE UNCHANGED <<timers, cancelled>>
  /\ UNCHANGED <<hook, renders, renderCb, callbackRef, delay, memoFn,
                 memoDeps, memoCb, nextFnId, returned, registered, calls,
                 value>>
  /\ UNCHANGED <<now, sched, effectFn, invoked, trig>>
  /\ UNCHANGED coordVars
  /\ UNCHANGED navVars
  /\ UNCHANGED demoVars

\* the clock advances
TickWithin(ticks) ==
  /\ now + TickMs <= StartTime + ticks * TickMs
  /\ now' = now + TickMs
  /\ UNCHANGED <<sched, timers, effectFn, invoked, trig, cancelled>>
  /\ UNCHANGED cellVars
  /\ UNCHANGED coordVars
  /\ UNCHANGED navVars
  /\ UNCHANGED demoVars

Tick == TickWithin(MaxTicks)

\* the timer facility runs the callback of timer t, at its due time or later:
\* debounce calls callback(...args); throttle first sets lastTime = Date.now()
\* and timeoutId = null
TimerFires(t) ==
  LET i == timers[t].inst
  IN  /\ timers[t].status = "live"
      /\ now >= timers[t].due
      /\ timers' = [timers EXCEPT ![t].status = "fired"]
      /\ sched' = IF sched[i].kind = "throttle"
                  THEN [sched EXCEPT ![i].lastTime = now,
                                     ![i].timeoutId = NoTimer]
                  ELSE sched
      /\ invoked' = Append(invoked,
                           Invocation(i, t, timers[t].call, timers[t].args,
                                      timers[t].slotAtCall))
      /\ UNCHANGED <<now, effectFn, trig, cancelled>>
      /\ UNCHANGED cellVars
      /\ UNCHANGED coordVars
      /\ UNCHANGED navVars
      /\ UNCHANGED demoVars

CellNext ==
  \/ \E d \in Delays(hook) : Render(d)
  \/ FlushEffects
  \/ \E a \in ArgLists : Trigger(a)
  \/ \E a \in HookPayloads : HookTrigger(a)
  \/ HookUnmount
  \/ Tick
  \/ \E t \in 1..Len(timers) : TimerFires(t)

CellSpec == CellInit /\ [][CellNext]_vars

\* ------------------------------------------------------------------------
\* One debounce or throttle instance used directly
\* ------------------------------------------------------------------------

\* the id of the instance
TheInstance == 1

SchedInit ==
  /\ CoordInit
  /\ NavStart
  /\ DemoStart
  /\ CellStart("useEventCallback")
  /\ now = StartTime
  /\ \E k \in {"debounce", "throttle"} : \E w \in Waits :
       sched = (TheInstance :> Scheduler(k, w, 0))
  /\ timers = <<>>
  /\ effectFn = NoFn
  /\ invoked = <<>>
  /\ trig = <<>>
  /\ cancelled = {}

\* the debounced / throttled function is called with args
Call(args) ==
  /\ TheInstance \in DOMAIN sched
  /\ Len(trig) < MaxTrig
  /\ SchedCall(TheInstance, args)
  /\ UNCHANGED <<now, effectFn, cancelled>>
  /\ UNCHANGED cellVars
  /\ UNCHANGED coordVars
  /\ UNCHANGED navVars
  /\ UNCHANGED demoVars

\* cancel() is called on the instance
Cancel ==
  /\ TheInstance \in DOMAIN sched
  /\ CancelOf(TheInstance)
  /\ UNCHANGED <<now, sched, effectFn, invoked, trig>>
  /\ UNCHANGED cellVars
  /\ UNCHANGED coordVars
  /\ UNCHANGED navVars
  /\ UNCHANGED demoVars

SchedNext ==
  \/ \E a \in Payloads : Call(a)
  \/ Cancel
  \/ Tick
  \/ \E t \in 1..Len(timers) : TimerFires(t)

SchedSpec == SchedInit /\ [][SchedNext]_vars

\* ------------------------------------------------------------------------
\* NaiveDebounceDemo and NaiveRefDemo: debounce used without the hook
\* ------------------------------------------------------------------------

Demos == {"NaiveDebounceDemo", "NaiveRefDemo"}

\* the texts of the input: "", "A", "AB"
Texts == {<<>>, <<"A">>, <<"A", "B">>}

\* a component that goes on using the instance of its first render
KeptInstance(held, fresh) == held

\* NaiveDebounceDemo: const debouncedSendRequest = debounce(sendRequest, 500)
\* in the component body: the handlers of a render use the instance of that
\* render
EveryRender(held, fresh) == fresh

\* a ref that is assigned again on every render
RefReplaced(held, fresh) == fresh

\* NaiveRefDemo: useRef(debounce(...)): the argument is evaluated on every
\* render, the ref keeps the instance of the first
UseRefKeeps(held, fresh) == held

\* the instance the handlers of the next render call
DemoInstance(h, held, fresh) ==
  IF h = "NaiveDebounceDemo" THEN EveryRender(held, fresh)
  ELSE UseRefKeeps(held, fresh)

\* handleChange: debouncedSendRequest(val) / debouncedRef.current()
DemoArgs(h, val) == IF h = "NaiveDebounceDemo" THEN <<val>> ELSE <<>>

\* what the callback appends to requests: sendRequest its argument, the
\* closure of NaiveRefDemo the value it captured when it was created
DemoObserved(h, captured, args) ==
  IF h = "NaiveDebounceDemo" THEN args[1] ELSE captured

\* a render with state value val: debounce(..., 500) is called once more,
\* with a callback created by this render
DemoRender(sc, val) ==
  sc @@ (nextFnId :> Scheduler("debounce", DebounceDemoDelay, val))

\* the demo after its first render
NaiveInit ==
  /\ CoordInit
  /\ NavStart
  /\ requests = <<>>
  /\ queued = <<>>
  /\ clears = 0
  /\ unifiedSyncLane \in BOOLEAN
  /\ \E h \in Demos : hook = h
  /\ cellPhase = "idle"
  /\ renders = 1
  /\ renderCb = 0
  /\ callbackRef = 0
  /\ delay = DebounceDemoDelay
  /\ memoFn = 1
  /\ memoDeps = <<>>
  /\ memoCb = 0
  /\ nextFnId = 2
  /\ returned = <<>>
  /\ registered = <<>>
  /\ calls = <<>>
  /\ value = <<>>
  /\ now = StartTime
  /\ sched = (1 :> Scheduler("debounce", DebounceDemoDelay, <<>>))
  /\ timers = <<>>
  /\ effectFn = NoFn
  /\ invoked = <<>>
  /\ trig = <<>>
  /\ cancelled = {}

\* a keystroke: handleChange calls setValue(val) and the debounced function
\* of the render on screen; the update of a discrete event is rendered before
\* the next task.  An update that a timer callback left waiting is rendered
\* with it or stays waiting, depending on the lanes of the React release
NaiveChange(val) ==
  LET i == memoFn
      args == DemoArgs(hook, val)
  IN  /\ val # value
      /\ Len(trig) < MaxKeystrokes
      /\ timers' = Append(ClearPrevious(timers, sched[i].timeoutId),
                          NewTimer(i, DebounceWait(sched[i].wait), args,
                                   Len(trig) + 1, callbackRef))
      /\ trig' = Append(trig, TrigRecord(i, args, now - sched[i].lastTime,
                                         "armed"))
      /\ sched' = DemoRender([sched EXCEPT ![i].timeoutId = Len(timers) + 1],
                             val)
      /\ value' = val
      /\ memoFn' = DemoInstance(hook, memoFn, nextFnId)
      /\ nextFnId' = nextFnId + 1
      /\ renders' = renders + 1
      /\ cellPhase' = IF unifiedSyncLane THEN "idle" ELSE cellPhase
      /\ UNCHANGED <<hook, renderCb, callbackRef, delay, memoDeps,
                     memoCb, returned, registered, calls>>
      /\ UNCHANGED <<now, effectFn, invoked, cancelled>>
      /\ UNCHANGED coordVars
      /\ UNCHANGED navVars
      /\ requests' = IF cellPhase' = "idle" THEN requests \o queued
                      ELSE requests
      /\ queued' = IF cellPhase' = "idle" THEN <<>> ELSE queued
      /\ UNCHANGED <<clears, unifiedSyncLane>>

\* timer t runs: the callback handed to its instance calls setRequests, which
\* asks for a render and returns; the render is a task of its own
NaiveTimerFires(t) ==
  LET i == timers[t].inst
  IN  /\ timers[t].status = "live"
      /\ now >= timers[t].due
      /\ timers' = [timers EXCEPT ![t].status = "fired"]
      /\ invoked' = Append(invoked,
           [inst |-> i, timer |-> t, call |-> timers[t].call, at |-> now,
            run |-> [cb |-> sched[i].createdCb, args |-> timers[t].args],
            observed |-> DemoObserved(hook, sched[i].createdCb,
                                      timers[t].args),
            value |-> value])
      /\ cellPhase' = "renderPending"
      /\ UNCHANGED <<hook, renders, renderCb, callbackRef, delay, memoFn,
                     memoDeps, memoCb, nextFnId, returned, registered, calls,
                     value>>
      /\ UNCHANGED <<now, sched, effectFn, trig, cancelled>>
      /\ UNCHANGED coordVars
      /\ UNCHANGED navVars
      /\ queued' = Append(queued, DemoObserved(hook, sched[i].createdCb,
                                                timers[t].args))
      /\ UNCHANGED <<requests, clears, unifiedSyncLane>>

\* React renders the updates that timer callbacks asked for, all in one
\* render: the component body runs again and calls debounce(..., 500).  When
\* no append is left to apply (a click on Clear came after them in the queue
\* and its own render has shown the empty list) the state comes out as it
\* is, React drops the render, and the handlers on screen stay those of the
\* render before
NaiveRender ==
  /\ cellPhase = "renderPending"
  /\ cellPhase' = "idle"
  /\ sched' = DemoRender(sched, value)
  /\ memoFn' = IF queued # <<>> THEN DemoInstance(hook, memoFn, nextFnId)
               ELSE memoFn
  /\ nextFnId' = nextFnId + 1
  /\ renders' = renders + 1
  /\ UNCHANGED <<hook, renderCb, callbackRef, delay, memoDeps, memoCb,
                 returned, registered, calls, value>>
  /\ UNCHANGED <<now, timers, effectFn, invoked, trig, cancelled>>
  /\ UNCHANGED coordVars
  /\ UNCHANGED navVars
  /\ requests' = requests \o queued
  /\ queued' = <<>>
  /\ UNCHANGED <<clears, unifiedSyncLane>>

\* a click on Clear: setRequests([]) puts a new array in the state, and the
\* update of a discrete event is rendered before the next task: the body
\* runs again and calls debounce(..., 500).  The appends still waiting for a
\* render come before it in the queue of the state, so the list is empty
\* once they are rendered, in this render or in the one still waiting
NaiveClear ==
  /\ clears < MaxClears
  /\ clears' = clears + 1
  /\ requests' = <<>>
  /\ queued' = <<>>
  /\ cellPhase' = IF unifiedSyncLane THEN "idle" ELSE cellPhase
  /\ UNCHANGED unifiedSyncLane
  /\ sched' = DemoRender(sched, value)
  /\ memoFn' = DemoInstance(hook, memoFn, nextFnId)
  /\ nextFnId' = nextFnId + 1
  /\ renders' = renders + 1
  /\ UNCHANGED <<hook, renderCb, callbackRef, delay, memoDeps, memoCb,
                 returned, registered, calls, value>>
  /\ UNCHANGED <<now, timers, effectFn, invoked, trig, cancelled>>
  /\ UNCHANGED coordVars
  /\ UNCHANGED navVars

NaiveNext ==
  \/ \E val \in Texts : NaiveChange(val)
  \/ TickWithin(MaxDemoTicks)
  \/ \E t \in 1..Len(timers) : NaiveTimerFires(t)
  \/ NaiveRender
  \/ NaiveClear

NaiveSpec == NaiveInit /\ [][NaiveNext]_vars

\* ------------------------------------------------------------------------
\* The navigation bar measuring itself
\* ------------------------------------------------------------------------
NavInit ==
  /\ CoordInit
  /\ CellStart("useEventCallback")
  /\ SchedStart
  /\ DemoStart
  /\ navWidths \in UNION {[1..n -> Widths(1, MaxItemWidth)] :
                             n \in 1..(MaxChildren - 1)}
  /\ moreWidth \in Widths(1, MaxMoreWidth)
  /\ \E w \in Widths(0, MaxContainerWidth) :
       container = [present |-> TRUE, width |-> w,
                    children |-> RenderedChildren(navWidths, moreWidth, -1)]
  /\ lastVisibleIndex = -1
  /\ measured = NoMeasurement

\* calculateVisible on container c: getLastVisibleItem(containerRef.current)
\* with the default moreButtonWidth, setLastVisibleIndex(index), and the
\* render of that state, which React does before the next task
Measure(c) ==
  LET index == getLastVisibleItem(c, DefaultMoreButtonWidth)
  IN  /\ lastVisibleIndex' = index
      /\ container' =
           [c EXCEPT !.children = RenderedChildren(navWidths, moreWidth, index)]
      /\ measured' = [done |-> TRUE, container |-> c, result |-> index]
      /\ UNCHANGED <<navWidths, moreWidth>>
      /\ UNCHANGED <<coordVars, cellVars, schedVars, demoVars>>

\* the layout effect at mount: calculateVisible() on the first render
CalculateVisible ==
  /\ ~measured.done
  /\ Measure(container)

\* a "resize" event: the window has made the container w wide (the width may
\* be the one it had) and the listener measures the container now rendered
Resize(w) ==
  /\ measured.done
  /\ Measure([container EXCEPT !.width = w])

NavNext ==
  \/ CalculateVisible
  \/ \E w \in Widths(0, MaxContainerWidth) : Resize(w)

NavSpec == NavInit /\ [][NavNext]_vars

\* ------------------------------------------------------------------------
\* Properties of the keyed request coordinator
\* ------------------------------------------------------------------------

\* C1: in each guarded page component every result committed with setData
\* has the key that is the id at the moment of the commit
C1_NoStaleCommit ==
  \A s \in Strategies : \A i \in 1..Len(commits[s]) :
    commits[s][i].key = commits[s][i].id

\* C1 witness: an older fetch completed after a newer one and every
\* component has committed a result
C1_Witness ==
  /\ microQ = <<>>
  /\ Len(fireOrder) >= 2
  /\ fireOrder[1] > fireOrder[2]
  /\ \A s \in Strategies : Len(commits[s]) >= 1

\* C2: a result is committed only if its fetch is the one issued by the most
\* recent key change (its sequence number is the current one)
C2_OnlyLatestCommits ==
  \A s \in Strategies : \A i \in 1..Len(commits[s]) :
    commits[s][i].seq = commits[s][i].cur

\* C3: once the id stops changing and the fetches settle, a page that stays
\* mounted ends, for good, not loading and showing the result of the last key
C3_EventuallyLatest ==
  <>[](phase = "mounted" =>
         /\ microQ = <<>>
         /\ \A s \in Strategies :
              ~loading[s] /\ data[s] = issuesData[page])

\* C3 witness: keys 1, 2, 3 whose fetches completed in the order 3, 2, 1 and
\* every component shows issue 3
C3_Witness ==
  /\ phase = "mounted"
  /\ microQ = <<>>
  /\ fireOrder = <<3, 2, 1>>
  /\ page = <<"3">>
  /\ \A s \in Strategies :
       /\ [i \in 1..Len(req[s]) |-> req[s][i].key]
            = << <<"1">>, <<"2">>, <<"3">> >>
       /\ ~loading[s]
       /\ data[s] = issuesData[<<"3">>]

\* C4: after the teardown no late result calls setData or setLoading
C4_NoCommitAfterTeardown ==
  \A s \in Strategies : \A i \in 1..Len(commits[s]) : commits[s][i].mounted

\* C5: the number of fetches issued is the number of times the id changed
\* value plus one for the mount
C5_OneFetchPerChange ==
  phase # "init" => \A s \in Strategies : Len(req[s]) = changes + 1

\* C5 witness: the same key selected twice in a row, one fetch for it
C5_Witness ==
  /\ clicks = 2
  /\ changes = 1
  /\ page = <<"2">>
  /\ \A s \in Strategies : Len(req[s]) = 2

\* C6: when the fetch of the active key has rejected for a reason other than
\* cancellation and the rejection has been handled, the component has left
\* the loading state
C6_FailureSurfaces ==
  \A s \in Strategies :
    (/\ phase = "mounted"
     /\ microQ = <<>>
     /\ Len(req[s]) >= 1
     /\ req[s][Len(req[s])].promise = "rejected"
     /\ req[s][Len(req[s])].err = "Error")
    => ~loading[s]

\* C7: in PageWithAbort the catch of an AbortError reports nothing and
\* changes neither data nor loading; any other rejection is reported
C7_AbortAbsorbed ==
  [][(/\ microQ # <<>>
      /\ Head(microQ).kind = "catch"
      /\ Head(microQ).s = "abort")
     => /\ data' = data
        /\ loading' = loading
        /\ commits' = commits
        /\ reported' =
             IF req["abort"][Head(microQ).n].err = "AbortError"
             THEN reported
             ELSE Append(reported,
                         [n |-> Head(microQ).n,
                          name |-> req["abort"][Head(microQ).n].err])]_vars

\* C7 witness: the rejection of an aborted fetch has been handled, nothing
\* was reported
C7_Witness ==
  /\ microQ = <<>>
  /\ \E n \in 1..Len(req["abort"]) : req["abort"][n].err = "AbortError"
  /\ reported = <<>>

\* C8: run side by side, the three strategies commit the same sequence of
\* results and show the same data and loading
C8_StrategiesEquivalent ==
  microQ = <<>> =>
    \A s, t \in Strategies :
      /\ commits[s] = commits[t]
      /\ data[s] = data[t]
      /\ loading[s] = loading[t]

\* ------------------------------------------------------------------------
\* Properties of the latest-callback hooks
\* ------------------------------------------------------------------------

\* C9: the function a hook returns keeps its identity across re-renders:
\* always for useEventCallback, and from one render to the next whenever the
\* delay argument of useDebounce / useThrottle is the same
C9_StableTrigger ==
  \A i \in 1..(Len(returned) - 1) :
    (hook = "useEventCallback" \/ returned[i].delay = returned[i + 1].delay)
      => returned[i].fn = returned[i + 1].fn

\* C9 witness: three renders with three different callbacks and one delay
C9_Witness ==
  /\ Len(returned) = 3
  /\ renderCb = 3
  /\ hook # "useEventCallback"
  /\ \A i \in 1..3 : returned[i].delay = 500

\* C10: a call of the trigger runs the callback registered last, with the
\* arguments given to the trigger
C10_Freshness ==
  \A i \in 1..Len(calls) :
    /\ calls[i].call.cb = registered[calls[i].nreg]
    /\ calls[i].call.args = calls[i].given

\* C10 witness: callbacks 1 and 2 were registered and a call with arguments
\* made after that ran callback 2
C10_Witness ==
  \E i \in 1..Len(calls) :
    /\ registered[calls[i].nreg] = 2
    /\ \E j \in 1..calls[i].nreg : registered[j] = 1
    /\ calls[i].call.cb = 2
    /\ calls[i].call.args = <<"a", "b">>

\* ------------------------------------------------------------------------
\* Properties of the debounce / throttle scheduler and its hooks
\* ------------------------------------------------------------------------

\* C11: once the owner is unmounted, a call of the trigger returned by
\* useEventCallback, useDebounce or useThrottle neither invokes the
\* registered callback nor arms a timer
C11_NoopAfterTeardown ==
  /\ \A i \in 1..Len(calls) : calls[i].ownerPhase # "unmounted"
  /\ \A i \in 1..Len(trig) :
       trig[i].ownerPhase = "unmounted"
         => trig[i].outcome \notin {"invoked", "armed"}

\* the invocations made in answer to call number c
InvocationsOf(c) == {k \in 1..Len(invoked) : invoked[k].call = c}

\* the timers armed by call number c
TimersOf(c) == {t \in 1..Len(timers) : timers[t].call = c}

\* call number c is the last of its burst: no later call came less than the
\* wait after it
LastOfBurst(c) ==
  c = Len(trig) \/ trig[c + 1].at - trig[c].at >= sched[trig[c].inst].wait

C13_FiresLatestCallback ==
  \A k \in 1..Len(invoked) :
    (hook # "useEventCallback" /\ invoked[k].timer # NoTimer) =>
      /\ invoked[k].run.cb = registered[invoked[k].nreg]
      /\ invoked[k].run.args = trig[invoked[k].call].args

\* C13 witness: a timer armed while callback 1 was registered fired after a
\* re-render had registered callback 2, and ran callback 2
C13_Witness ==
  \E k \in 1..Len(invoked) :
    /\ hook # "useEventCallback"
    /\ invoked[k].timer # NoTimer
    /\ timers[invoked[k].timer].slotAtCall = 1
    /\ registered[invoked[k].nreg] = 2
    /\ invoked[k].run.cb = 2

\* the timers of instance i that are armed, not fired and not cleared
LiveTimers(i) ==
  {t \in 1..Len(timers) : timers[t].inst = i /\ timers[t].status = "live"}

\* C14: every debounce instance and every throttle instance has at most one
\* live timer, and it is the one its timeoutId names
C14_OneLiveTimer ==
  \A i \in DOMAIN sched :
    /\ Cardinality(LiveTimers(i)) <= 1
    /\ LiveTimers(i) \subseteq {sched[i].timeoutId}

\* C14 witness: three calls in a row on one instance, the second and the
\* third made while a timer was live, and one live timer: three timers armed
\* by a debounce, one by a throttle
C14_Witness ==
  /\ Len(trig) = 3
  /\ trig[2].outcome = "armed"
  /\ trig[3].outcome = (IF sched[TheInstance].kind = "debounce"
                        THEN "armed" ELSE "pending")
  /\ Len(timers) = (IF sched[TheInstance].kind = "debounce" THEN 3 ELSE 1)
  /\ Cardinality(LiveTimers(TheInstance)) = 1

\* C15: a timer that was pending when cancel() was called on its instance
\* never invokes the callback, and no timer that was pending when the owner
\* of useDebounce / useThrottle unmounted invokes it afterwards
C15_CancelledNeverFires ==
  /\ \A t \in cancelled : timers[t].status = "cleared"
  /\ \A k \in 1..Len(invoked) :
       /\ invoked[k].timer \notin cancelled
       /\ (invoked[k].timer # NoTimer /\ invoked[k].ownerPhase = "unmounted")
            => trig[invoked[k].call].ownerPhase = "unmounted"

\* C15 witness: the owner unmounted while a timer was pending, and the due
\* time of that timer has passed
C15_Witness ==
  /\ hook # "useEventCallback"
  /\ cellPhase = "unmounted"
  /\ \E t \in cancelled :
       /\ trig[timers[t].call].ownerPhase # "unmounted"
       /\ timers[t].inst = effectFn
       /\ now > timers[t].due

\* C16: once a change of the delay has made useDebounce / useThrottle create
\* a new scheduler, no timer of an older scheduler fires: every invocation by
\* a timer is made by the scheduler that is the current one
C16_OldSchedulerSilent ==
  \A k \in 1..Len(invoked) :
    (hook # "useEventCallback" /\ invoked[k].timer # NoTimer)
      => invoked[k].inst = invoked[k].current

\* C17: on a throttle instance on which nothing was cancelled, a call made
\* when at least wait has passed since the last invocation invokes the
\* callback at once with its arguments; a call made earlier leaves a trailing
\* invocation pending; and every trailing invocation is the one of the
\* interval the previous invocation opened: it answers a call made after that
\* invocation and comes when that interval has elapsed
C17_LeadingAndTrailing ==
  (sched[TheInstance].kind = "throttle" /\ cancelled = {}) =>
    /\ \A c \in 1..Len(trig) :
         IF trig[c].elapsed >= sched[TheInstance].wait
         THEN /\ trig[c].outcome = "invoked"
              /\ \E k \in InvocationsOf(c) :
                   /\ invoked[k].timer = NoTimer
                   /\ invoked[k].at = trig[c].at
                   /\ invoked[k].run.args = trig[c].args
         ELSE trig[c].outcome \in {"armed", "pending"}
    /\ \A k \in 1..Len(invoked) :
         invoked[k].timer # NoTimer =>
           /\ k > 1
           /\ trig[invoked[k].call].outcome = "armed"
           /\ trig[invoked[k].call].ninv >= k - 1
           /\ invoked[k].at >= invoked[k - 1].at + sched[TheInstance].wait
           /\ invoked[k].run.args = trig[invoked[k].call].args

\* C18: any two consecutive invocations of the callback of a throttle instance
\* are at least wait apart
C18_OncePerInterval ==
  sched[TheInstance].kind = "throttle" =>
    \A k \in 2..Len(invoked) :
      invoked[k].at - invoked[k - 1].at >= sched[TheInstance].wait

\* the calls made so far are evenly spread: every gap between two calls in a
\* row is the same
EvenlySpread ==
  \A c \in 2..(Len(trig) - 1) :
    trig[c + 1].at - trig[c].at = trig[c].at - trig[c - 1].at

\* the length of the period from the first call to the last
Period == trig[Len(trig)].at - trig[1].at

\* ceil(d / w) for d >= 0 and w > 0
CeilDiv(d, w) == (d + w - 1) \div w

\* the invocations made during the period of the calls
InPeriod == {k \in 1..Len(invoked) : invoked[k].at <= trig[Len(trig)].at}

\* C19: M calls of a throttle instance spread evenly over a period of length
\* D cause at most ceil(D / wait) + 1 invocations during that period
C19_ThrottleBound ==
  (sched[TheInstance].kind = "throttle" /\ Len(trig) >= 1 /\ EvenlySpread) =>
    Cardinality(InPeriod) <= CeilDiv(Period, sched[TheInstance].wait) + 1

\* C20: after cancel() the instance is disarmed: a call that falls inside the
\* interval while no timer is live arms a new trailing invocation, so no call
\* is ever left without an invocation, at once or pending
C20_CancelDisarms ==
  \A c \in 1..Len(trig) : trig[c].outcome # "dropped"

\* ------------------------------------------------------------------------
\* Further properties of the page components and of simulateFetch
\* ------------------------------------------------------------------------

\* the outcome of a call of simulateFetch fits its timer and its signal:
\* fulfilled by the timer that fired, or rejected with AbortError by an
\* abort that cleared the timer
Settled(r) ==
  CASE r.promise = "pending" -> r.timer = "armed" /\ r.err = "none"
    [] r.promise = "fulfilled" -> r.timer = "fired" /\ r.err = "none"
    [] r.promise = "rejected" ->
         r.timer = "cleared" /\ r.err = "AbortError" /\ r.aborted

\* C21: every call of simulateFetch settles exactly once: its promise ends
\* fulfilled with the data or rejected with AbortError, a settled promise
\* never changes again (an abort after the resolve changes nothing, a timer
\* cleared by an abort never resolves), and in the end every call has settled
C21_SettlesOnce ==
  /\ [][\A s \in Strategies : \A n \in 1..Len(req[s]) :
          /\ Settled(req'[s][n])
          /\ req[s][n].promise # "pending"
               => /\ req'[s][n].promise = req[s][n].promise
                  /\ req'[s][n].err = req[s][n].err
                  /\ req'[s][n].timer = req[s][n].timer]_vars
  /\ <>[](\A s \in Strategies : \A n \in 1..Len(req[s]) :
             req[s][n].promise # "pending")

\* C21 witness: in PageWithAbort the first fetch resolved and was aborted
\* afterwards, the second was aborted before its delay elapsed
C21_Witness ==
  /\ Len(req["abort"]) >= 3
  /\ req["abort"][1].promise = "fulfilled" /\ req["abort"][1].aborted
  /\ req["abort"][2].promise = "rejected" /\ req["abort"][2].err = "AbortError"
  /\ microQ = <<>>

\* the setter calls a component made while it was mounted
WhileMounted(cs) == SelectSeq(cs, LAMBDA c : c.mounted)

\* C22: the then-callback of the unguarded Page hands the result of every
\* fetch to the setters in the order in which the fetches complete, whatever
\* the id is by then, and the Page shows the result that completed last while
\* it was mounted
C22_UnguardedCommitsAll ==
  microQ = <<>> =>
    /\ [i \in 1..Len(commits["page"]) |-> commits["page"][i].seq] = fireOrder
    /\ LET shown == WhileMounted(commits["page"])
       IN  data["page"] = IF shown = <<>> THEN NoData
                          ELSE issuesData[shown[Len(shown)].key]

\* C22 witness: the Page is not loading and shows the issue of a key that is
\* not the current id, after the result of an older fetch overwrote the
\* result of a newer one
C22_Witness ==
  /\ phase = "mounted"
  /\ microQ = <<>>
  /\ ~loading["page"]
  /\ data["page"] # issuesData[page]
  /\ Len(commits["page"]) >= 2
  /\ LET last == commits["page"][Len(commits["page"])]
         prev == commits["page"][Len(commits["page"]) - 1]
     IN  /\ last.seq < prev.seq
         /\ prev.key = page
         /\ last.key # page

C24_DataOnlyByCommit ==
  [][\A s \in Strategies :
       /\ page' # page => loading'[s] /\ data'[s] = data[s]
       /\ data'[s] # data[s] =>
            /\ microQ # <<>>
            /\ Head(microQ).kind = "then"
            /\ Head(microQ).s = s
            /\ Len(commits'[s]) = Len(commits[s]) + 1
            /\ data'[s] = issuesData[req[s][Head(microQ).n].key]]_vars

\* C24 witness: after a key change that aborted a pending request, every
\* guarded component is loading and still holds the result committed for an
\* earlier key
C24_Witness ==
  /\ phase = "mounted"
  /\ microQ = <<>>
  /\ \E n \in 1..Len(req["abort"]) : req["abort"][n].err = "AbortError"
  /\ \A s \in Strategies :
       /\ loading[s]
       /\ commits[s] # <<>>
       /\ data[s] # NoData
       /\ data[s] # issuesData[page]

\* ------------------------------------------------------------------------
\* Properties of the demos that use debounce without the hook
\* ------------------------------------------------------------------------

\* C25: in NaiveDebounceDemo every keystroke arms a timer on an instance of
\* its own and no timer is ever cleared, so every keystroke whose timer has
\* run was answered by one invocation of its own, with its own text, not
\* before wait has passed since that keystroke
C25_NaiveOnlyDelays ==
  hook = "NaiveDebounceDemo" =>
    /\ \A c, d \in 1..Len(trig) : c # d => trig[c].inst # trig[d].inst
    /\ \A t \in 1..Len(timers) : timers[t].status # "cleared"
    /\ Len(timers) = Len(trig)
    /\ \A c \in 1..Len(trig) :
         /\ Cardinality(InvocationsOf(c)) =
              (IF timers[c].status = "fired" THEN 1 ELSE 0)
         /\ \A k \in InvocationsOf(c) :
              /\ invoked[k].observed = trig[c].args[1]
              /\ invoked[k].at >= trig[c].at + DebounceDemoDelay

\* C25 witness: two keystrokes less than the wait apart and two
\* invocations, each exactly wait after its keystroke
C25_Witness ==
  /\ hook = "NaiveDebounceDemo"
  /\ Len(trig) = 2
  /\ Len(invoked) = 2
  /\ trig[2].at - trig[1].at < DebounceDemoDelay
  /\ \A c \in 1..2 : \E k \in InvocationsOf(c) :
       invoked[k].at = trig[c].at + DebounceDemoDelay

\* C26: in NaiveRefDemo every call goes to the instance created at mount,
\* every invocation appends the value captured at mount, the empty string,
\* and a call followed by another less than wait later never invokes
C26_FrozenClosure ==
  hook = "NaiveRefDemo" =>
    /\ \A c \in 1..Len(trig) :
         /\ trig[c].inst = 1
         /\ ~LastOfBurst(c) => InvocationsOf(c) = {}
         /\ Cardinality(InvocationsOf(c)) <= 1
    /\ \A k \in 1..Len(invoked) :
         /\ invoked[k].inst = 1
         /\ invoked[k].observed = <<>>

\* C26 witness: a burst of two keystrokes left "AB" in the input, and the one
\* invocation it caused appended the empty string
C26_Witness ==
  /\ hook = "NaiveRefDemo"
  /\ Len(trig) >= 2
  /\ ~LastOfBurst(1)
  /\ Len(invoked) = 1
  /\ invoked[1].call = 2
  /\ invoked[1].value = <<"A", "B">>
  /\ invoked[1].observed = <<>>

\* ------------------------------------------------------------------------
\* Further properties of the latest-callback hooks and of the scheduler
\* ------------------------------------------------------------------------

\* C27: a call of the trigger of useEventCallback made after a render and
\* before the effect of that render runs the callback of the render before
\* (after the first render: the callback of that first render, the initial
\* value of the ref); a call made after the effect runs the callback the
\* render supplied
C27_RefWrittenByEffect ==
  hook = "useEventCallback" =>
    \A i \in 1..Len(calls) :
      /\ calls[i].ownerPhase = "rendered" =>
           calls[i].call.cb = (IF calls[i].supplied = 1 THEN 1
                               ELSE calls[i].supplied - 1)
      /\ calls[i].ownerPhase = "idle" =>
           calls[i].call.cb = calls[i].supplied

\* C27 witness: a call before the first effect ran callback 1, and a call
\* after the render that supplied callback 2, before its effect, ran
\* callback 1 again
C27_Witness ==
  /\ hook = "useEventCallback"
  /\ Len(calls) = 2
  /\ calls[1].ownerPhase = "rendered"
  /\ calls[1].supplied = 1 /\ calls[1].call.cb = 1
  /\ calls[2].ownerPhase = "rendered"
  /\ calls[2].supplied = 2 /\ calls[2].call.cb = 1

\* the calls that were suppressed: made less than wait after the last
\* invocation
Suppressed(c) == trig[c].outcome # "invoked"

\* C28: every trailing invocation of a throttle instance is made with the
\* arguments of the call that armed the timer, which is the first call
\* suppressed since the invocation before it; the calls suppressed after it
\* are never answered by an invocation of their own
C28_TrailingArgsOfFirst ==
  sched[TheInstance].kind = "throttle" =>
    /\ \A k \in 1..Len(invoked) :
         invoked[k].timer # NoTimer =>
           LET c == invoked[k].call
           IN  /\ trig[c].outcome = "armed"
               /\ invoked[k].run.args = trig[c].args
               /\ \A d \in 1..(c - 1) :
                    Suppressed(d) => trig[d].ninv < trig[c].ninv
    /\ \A c \in 1..Len(trig) :
         trig[c].outcome \in {"pending", "dropped"} => InvocationsOf(c) = {}

\* C28 witness: after the leading call two calls were suppressed in the same
\* interval, with different payloads, and the trailing invocation was made
\* with the payload of the first of them
C28_Witness ==
  /\ sched[TheInstance].kind = "throttle"
  /\ Len(trig) = 3
  /\ trig[1].outcome = "invoked"
  /\ trig[2].outcome = "armed" /\ trig[2].args = <<"A">>
  /\ trig[3].outcome = "pending" /\ trig[3].args = <<"B">>
  /\ Len(invoked) = 2
  /\ invoked[2].timer # NoTimer
  /\ invoked[2].run.args = <<"A">>

\* C29: on a debounce instance every invocation comes at least wait after
\* every call made before it, and between two calls less than wait apart
\* there is no invocation
C29_QuietBeforeInvocation ==
  sched[TheInstance].kind = "debounce" =>
    /\ \A k \in 1..Len(invoked) : \A c \in 1..Len(trig) :
         trig[c].ninv < k =>
           invoked[k].at - trig[c].at >= sched[TheInstance].wait
    /\ \A c \in 1..(Len(trig) - 1) :
         ~LastOfBurst(c) => trig[c + 1].ninv = trig[c].ninv

\* C29 witness: two calls apart by less than wait, no invocation between
\* them, one invocation exactly wait after the second, and a third call made
\* after that invocation
C29_Witness ==
  /\ sched[TheInstance].kind = "debounce"
  /\ Len(trig) = 3
  /\ ~LastOfBurst(1) /\ trig[2].at > trig[1].at
  /\ trig[2].ninv = 0
  /\ Len(invoked) = 1
  /\ invoked[1].at = trig[2].at + sched[TheInstance].wait
  /\ trig[3].ninv = 1

\* ------------------------------------------------------------------------
\* Properties of the navigation bar
\* ------------------------------------------------------------------------

\* C30: whenever the widths of all items of the container handed to
\* getLastVisibleItem add up to at most the width of the container, it
\* returns the index of the last item
C30_AllFitAllVisible ==
  (/\ measured.done
   /\ SumWidths(SliceButLast(measured.container.children))
        <= measured.container.width)
    => measured.result = Len(SliceButLast(measured.container.children)) - 1

====
